---- MODULE Spec2Model ----
(***************************************************************************)
(* const_env_impl: the from_env attribute implementation.                  *)
(*                                                                         *)
(* A declaration (const / static item) carries a literal initializer.      *)
(* from_env resolves an environment key, asks a ReadEnv provider for it    *)
(* and, when a value is present, replaces the initializer by a literal of  *)
(* the same kind parsed from the value.                                    *)
(*                                                                         *)
(* Text (Rust String / &str) is a sequence of characters, each character   *)
(* a one-element atom.  The atom "e_acute" stands for U+00E9, the only     *)
(* character of the universe that takes two UTF-8 bytes.                   *)
(* The character universe has no backslash, no apostrophe inside values,   *)
(* no underscore inside numbers and no radix / exponent letters after a    *)
(* digit, so escapes, radix prefixes and exponents never arise.            *)
(***************************************************************************)
EXTENDS Integers, Sequences, FiniteSets, TLC

VARIABLES
    provider,   \* "builder" | "TestEnv" | "RealEnv": which ReadEnv value exists
    env_vars,   \* TestEnvBuilder.env_vars / TestEnv.env_vars (HashMap)
    os_env,     \* the process environment RealEnv reads
    pc,         \* "idle" | "returned" | "panicked"
    attr,       \* from_env argument: attribute token stream
    item,       \* from_env argument: the declaration
    output,     \* the TokenStream from_env returned
    panic,      \* the panic that aborted from_env
    reads,      \* keys passed to read_env, in call order
    stdout,     \* lines written to standard output
    new_expr    \* from_env's local new_expr: what value_to_literal returned

vars == <<provider, env_vars, os_env, pc, attr, item, output, panic, reads, stdout, new_expr>>

----------------------------------------------------------------------------
(* Bounds *)

MaxLen == 3        \* longest generated raw override value
MaxParen == 2      \* deepest parenthesization of the attribute argument

----------------------------------------------------------------------------
(* Characters *)

EAcute == "e_acute"
Quote == "\""
Apostrophe == "'"

Digits == {"0", "2", "3", "4", "5", "7", "8", "9"}
Letters == {"u", "b", "a", "c", "e", "f", "l", "r", "s", "t", "y", "i",
            "A", "B", "T", EAcute}
Whitespace == {" "}
PunctChars == {"-", "+", "."}

\* char::len_utf8
len_utf8(c) == IF c = EAcute THEN 2 ELSE 1

\* u8::is_ascii on the bytes of a character
is_ascii(c) == len_utf8(c) = 1

\* proc_macro2 is_ident_start / is_ident_continue (XID_Start / XID_Continue)
is_ident_start(c) == c \in Letters
is_ident_continue(c) == c \in Letters \cup Digits

\* The generated alphabet of raw override values.
Alphabet == {"-", "+", " ", "4", "2", ".", "u", EAcute}

RECURSIVE SeqsOfLen(_, _)
SeqsOfLen(S, n) ==
    IF n = 0 THEN {<<>>}
    ELSE {<<c>> \o s : c \in S, s \in SeqsOfLen(S, n - 1)}

SeqsUpTo(S, n) == UNION {SeqsOfLen(S, k) : k \in 0..n}

----------------------------------------------------------------------------
(* Token streams: proc_macro2's lexer on the character universe.           *)
(* A token is [t, kind, text, suffix]; t is "Lit", "Ident" or "Punct".     *)

Tok(t, kind, text, suffix) == [t |-> t, kind |-> kind, text |-> text, suffix |-> suffix]

Drop(s, n) == SubSeq(s, n + 1, Len(s))
Take(s, n) == SubSeq(s, 1, n)

\* Length of the longest prefix of s made of characters of S.
RECURSIVE PrefixLen(_, _)
PrefixLen(s, S) ==
    IF s # <<>> /\ Head(s) \in S THEN 1 + PrefixLen(Tail(s), S) ELSE 0

\* Index of the first occurrence of c in s, 0 if none.
RECURSIVE IndexOf(_, _)
IndexOf(s, c) ==
    IF s = <<>> THEN 0
    ELSE IF Head(s) = c THEN 1
    ELSE LET r == IndexOf(Tail(s), c) IN IF r = 0 THEN 0 ELSE r + 1

\* ident_not_raw applied as literal_suffix: the identifier right after a
\* literal is its suffix; none when no identifier starts there.
SuffixLen(s) ==
    IF s # <<>> /\ is_ident_start(Head(s)) THEN PrefixLen(s, Letters \cup Digits) ELSE 0

Reject == [ok |-> FALSE, tok |-> Tok("", "", <<>>, <<>>), rest |-> <<>>]
Accept(tok, rest) == [ok |-> TRUE, tok |-> tok, rest |-> rest]

\* A literal whose body ends before index n+1 of s, followed by its suffix.
WithSuffix(kind, text, after) ==
    LET k == SuffixLen(after)
    IN Accept(Tok("Lit", kind, text, Take(after, k)), Drop(after, k))

\* cooked_string: "..." up to the next quotation mark.
string(s) ==
    IF s = <<>> \/ Head(s) # Quote THEN Reject
    ELSE LET body == Tail(s)
             j == IndexOf(body, Quote)
         IN IF j = 0 THEN Reject
            ELSE WithSuffix("Str", Take(body, j - 1), Drop(body, j))

\* cooked_byte_string: b"..." with ASCII content only.
byte_string(s) ==
    IF Len(s) < 2 \/ s[1] # "b" \/ s[2] # Quote THEN Reject
    ELSE LET body == Drop(s, 2)
             j == IndexOf(body, Quote)
         IN IF j = 0 THEN Reject
            ELSE IF \E i \in 1..(j - 1) : ~is_ascii(body[i]) THEN Reject
            ELSE WithSuffix("ByteStr", Take(body, j - 1), Drop(body, j))

\* byte: b'x' with x one byte long.
byte(s) ==
    IF Len(s) < 4 \/ s[1] # "b" \/ s[2] # Apostrophe THEN Reject
    ELSE IF ~is_ascii(s[3]) \/ s[4] # Apostrophe THEN Reject
    ELSE WithSuffix("Byte", <<s[3]>>, Drop(s, 4))

\* character: 'x' with x any one character.
character(s) ==
    IF Len(s) < 3 \/ s[1] # Apostrophe \/ s[3] # Apostrophe THEN Reject
    ELSE WithSuffix("Char", <<s[2]>>, Drop(s, 3))

\* float_digits then the suffix: digits with one '.', the dot not followed
\* by another '.' or by an identifier.
float(s) ==
    LET n == PrefixLen(s, Digits)
    IN IF n = 0 \/ Len(s) = n \/ s[n + 1] # "." THEN Reject
       ELSE LET after == Drop(s, n + 1)
            IN IF after # <<>> /\ (Head(after) = "." \/ is_ident_start(Head(after)))
               THEN Reject
               ELSE LET m == PrefixLen(after, Digits)
                    IN WithSuffix("Num", Take(s, n + 1 + m), Drop(after, m))

\* digits then the suffix.
int(s) ==
    LET n == PrefixLen(s, Digits)
    IN IF n = 0 THEN Reject ELSE WithSuffix("Num", Take(s, n), Drop(s, n))

\* The first of two alternatives that accepts.
OrElse(a, b) == IF a.ok THEN a ELSE b

\* literal_nocapture: the first alternative that accepts.
literal(s) ==
    OrElse(string(s), OrElse(byte_string(s), OrElse(byte(s),
        OrElse(character(s), OrElse(float(s), int(s))))))

\* punct: one punctuation character; an apostrophe only as the start of a
\* lifetime, which no closing apostrophe may follow.
punct(s) ==
    IF s = <<>> THEN Reject
    ELSE IF Head(s) \in PunctChars THEN Accept(Tok("Punct", "", <<Head(s)>>, <<>>), Tail(s))
    ELSE IF Head(s) = Apostrophe
    THEN LET k == SuffixLen(Tail(s))
         IN IF k = 0 THEN Reject
            ELSE IF Drop(Tail(s), k) # <<>> /\ Head(Drop(Tail(s), k)) = Apostrophe THEN Reject
            ELSE Accept(Tok("Punct", "", <<Apostrophe>>, <<>>), Tail(s))
    ELSE Reject

\* ident_any
ident_any(s) ==
    LET k == SuffixLen(s)
    IN IF k = 0 THEN Reject ELSE Accept(Tok("Ident", "", Take(s, k), <<>>), Drop(s, k))

\* The input starts with the prefix of a string, byte or raw literal: a
\* letter r, b or c right before a quotation mark, or b before an apostrophe.
starts_literal_prefix(s) ==
    /\ Len(s) >= 2
    /\ \/ s[1] \in {"r", "b", "c"} /\ s[2] = Quote
       \/ s[1] = "b" /\ s[2] = Apostrophe

\* ident: no identifier is read where a literal prefix stands.
ident(s) == IF starts_literal_prefix(s) THEN Reject ELSE ident_any(s)

leaf_token(s) == OrElse(literal(s), OrElse(punct(s), ident(s)))

LexError == [ok |-> FALSE, toks |-> <<>>]

\* skip_whitespace
skip_whitespace(s) == Drop(s, PrefixLen(s, Whitespace))

\* A token in front of the tokens of the rest of the input.
push(tok, more) ==
    IF ~more.ok THEN LexError ELSE [ok |-> TRUE, toks |-> <<tok>> \o more.toks]

\* TokenStream::from_str: skip whitespace, read tokens to the end of input;
\* any rejected token is a LexError.
RECURSIVE token_stream(_)
after_leaf(r) == IF ~r.ok THEN LexError ELSE push(r.tok, token_stream(r.rest))

next_token(s) ==
    IF s = <<>> THEN [ok |-> TRUE, toks |-> <<>>] ELSE after_leaf(leaf_token(s))

token_stream(s) == next_token(skip_whitespace(s))

----------------------------------------------------------------------------
(* syn literals.  A literal is [kind, value, suffix, span]: value is the   *)
(* payload text (string content, digits, "true"/"false").                  *)

Lit(kind, value, suffix, span) ==
    [kind |-> kind, value |-> value, suffix |-> suffix, span |-> span]

\* Span of every token a parse_str call produces.
CallSite == "call_site"

TrueText == <<"t", "r", "u", "e">>
FalseText == <<"f", "a", "l", "s", "e">>

\* BigInt::to_string in parse_lit_int: the digits without leading zeros.
RECURSIVE base10_digits(_)
base10_digits(d) ==
    IF Len(d) > 1 /\ Head(d) = "0" THEN base10_digits(Tail(d)) ELSE d

\* Lit::new: classify a literal token by its text.  A number is an integer
\* unless parse_lit_int gives up on a '.', and then a float.
Lit_new(tok) ==
    IF tok.kind = "Num"
    THEN IF IndexOf(tok.text, ".") = 0
         THEN Lit("Int", base10_digits(tok.text), tok.suffix, CallSite)
         ELSE Lit("Float", tok.text, tok.suffix, CallSite)
    ELSE Lit(tok.kind, tok.text, tok.suffix, CallSite)

NoLit == [ok |-> FALSE, lit |-> Lit("", <<>>, <<>>, CallSite), rest |-> <<>>]

\* impl Parse for Lit: a literal token, the identifier true / false, or a
\* '-' followed by a numeric literal token.
Lit_parse(toks) ==
    IF toks = <<>> THEN NoLit
    ELSE LET t == Head(toks)
         IN IF t.t = "Lit"
            THEN [ok |-> TRUE, lit |-> Lit_new(t), rest |-> Tail(toks)]
            ELSE IF t.t = "Ident" /\ t.text \in {TrueText, FalseText}
            THEN [ok |-> TRUE, lit |-> Lit("Bool", t.text, <<>>, CallSite),
                  rest |-> Tail(toks)]
            ELSE IF t.t = "Punct" /\ t.text = <<"-">> /\ Len(toks) >= 2
                    /\ toks[2].t = "Lit" /\ toks[2].kind = "Num"
            THEN LET l == Lit_new(toks[2])
                 IN [ok |-> TRUE,
                     lit |-> Lit(l.kind, <<"-">> \o l.value, l.suffix, CallSite),
                     rest |-> Drop(toks, 2)]
            ELSE NoLit

\* Mutant of whole_lit: parses a syn::Lit of any kind.
whole_lit_any_kind(kind, r) == IF r.ok /\ r.rest = <<>> THEN r ELSE NoLit

\* The Lit just parsed must be of the kind asked for (impl Parse for LitX)
\* and the whole input must be consumed (Parser::parse2).
whole_lit(kind, r) == IF r.ok /\ r.lit.kind = kind /\ r.rest = <<>> THEN r ELSE NoLit

parse2(kind, ts) == IF ~ts.ok THEN NoLit ELSE whole_lit(kind, Lit_parse(ts.toks))

\* syn::parse_str::<LitX>: lex the text, parse one literal of kind X, and
\* accept only when no token is left.
parse_str(kind, text) == parse2(kind, token_stream(text))

\* Mutant of parse_bool: also takes the capitalized spellings.
parse_bool_capitalized(value) ==
    value \in {TrueText, FalseText, <<"T", "r", "u", "e">>, <<"F", "a", "l", "s", "e">>}

\* <bool as FromStr>::from_str: exactly "true" or "false".
parse_bool(value) == value \in {TrueText, FalseText}

\* Mutant of set_span: the span stays the one the parser gave.
set_span_dropped(lit, span) == lit

\* LitX::set_span
set_span(lit, span) == [lit EXCEPT !.span = span]

----------------------------------------------------------------------------
(* syn expressions *)

ExprLit(attrs, lit) == [node |-> "Lit", attrs |-> attrs, lit |-> lit]
ExprUnary(attrs, op, expr) == [node |-> "Unary", attrs |-> attrs, op |-> op, expr |-> expr]
ExprParen(attrs, expr) == [node |-> "Paren", attrs |-> attrs, expr |-> expr]
ExprPath(attrs, path) == [node |-> "Path", attrs |-> attrs, path |-> path]

----------------------------------------------------------------------------
(* Panics: the message text and what is interpolated into it *)

Panic(msg, shows) == [msg |-> msg, shows |-> shows]
NoPanic == Panic("", {})

\* Result::expect: the given message followed by the Debug form of the error.
expect(msg) == Panic(msg, {"syn::Error"})

----------------------------------------------------------------------------
(* Option<String> as a sequence of at most one text *)

None == <<>>
Some(v) == <<v>>

----------------------------------------------------------------------------
(* The inputs *)

NAME == <<"N", "A", "M", "E">>
OTHER_KEY == <<"O", "T", "H", "E", "R", "_", "K", "E", "Y">>
Keys == {NAME, OTHER_KEY}

\* Raw values written out by hand, beside the generated ones.
SampleValues ==
    { <<"A">>, <<"B">>, <<"9", "9">>, <<"-", "4", "2">>,
      TrueText, FalseText, <<"T", "r", "u", "e">>, <<"y", "e", "s">>,
      <<"a", "b", "c">>, <<"0", "4", "2">>, <<"4", "2", "u", "8">>,
      <<"4", Quote>>, <<Quote>>, <<"a", " ", "b">>, <<"-", "4", ".", "2", "5">> }

RawValues == SeqsUpTo(Alphabet, MaxLen) \cup SampleValues

\* Values the test environment builder is given.
BuilderValues == { <<"A">>, <<"B">>, <<"9", "9">>, <<"-", "4", "2">>, TrueText, <<>> }

LitSpan == "src/lib.rs:3:22"
ItemSpan == "src/lib.rs:3:1"

NoAttrs == <<>>
OneAttr == <<"#[rustfmt::skip]">>

OriginalLits ==
    { Lit("Str", <<"a", "b">>, <<>>, LitSpan),
      Lit("ByteStr", <<"a", "b">>, <<>>, LitSpan),
      Lit("Byte", <<"a">>, <<>>, LitSpan),
      Lit("Char", <<"a">>, <<>>, LitSpan),
      Lit("Int", <<"5">>, <<>>, LitSpan),
      Lit("Int", <<"5">>, <<"u", "8">>, LitSpan),
      Lit("Float", <<"2", ".", "5">>, <<>>, LitSpan),
      Lit("Float", <<"2", ".", "5">>, <<"f", "3", "2">>, LitSpan),
      Lit("Bool", TrueText, <<>>, LitSpan),
      Lit("Verbatim", <<"5">>, <<>>, LitSpan) }

NumericLits == {l \in OriginalLits : l.kind \in {"Int", "Float"}}

UnaryOps == {"Neg", "Not", "Deref"}

OriginalExprs ==
    {ExprLit(NoAttrs, l) : l \in OriginalLits}
    \cup {ExprLit(OneAttr, Lit("Int", <<"5">>, <<>>, LitSpan))}
    \cup {ExprUnary(NoAttrs, "Neg", ExprLit(NoAttrs, l)) : l \in NumericLits}
    \cup {ExprUnary(NoAttrs, op, ExprLit(NoAttrs, Lit("Int", <<"5">>, <<>>, LitSpan))) :
            op \in UnaryOps}
    \cup { ExprUnary(OneAttr, "Neg", ExprLit(OneAttr, Lit("Int", <<"5">>, <<>>, LitSpan))),
           ExprUnary(NoAttrs, "Not", ExprLit(NoAttrs, Lit("Bool", TrueText, <<>>, LitSpan))),
           ExprUnary(NoAttrs, "Neg",
               ExprUnary(NoAttrs, "Neg", ExprLit(NoAttrs, Lit("Int", <<"5">>, <<>>, LitSpan)))),
           ExprUnary(NoAttrs, "Neg", ExprPath(NoAttrs, OTHER_KEY)),
           ExprPath(NoAttrs, OTHER_KEY),
           ExprParen(NoAttrs, ExprLit(NoAttrs, Lit("Int", <<"5">>, <<>>, LitSpan))) }

Item(shape, name, ty, expr) ==
    [shape |-> shape, ident |-> name, ty |-> ty, expr |-> expr, span |-> ItemSpan]

ConstItems == {Item("const", NAME, "T", e) : e \in OriginalExprs}
StaticItems == {Item("static", NAME, "T", e) : e \in OriginalExprs}
\* An item that is neither a const nor a static.
FnItem == Item("fn", NAME, "T", ExprPath(NoAttrs, OTHER_KEY))
Items == ConstItems \cup StaticItems \cup {FnItem}

EmptyAttr == [node |-> "Empty"]
\* Tokens that are no expression.
UnparsableAttr == [node |-> "Unparsable"]

RECURSIVE Parens(_, _)
Parens(e, n) == IF n = 0 THEN e ELSE ExprParen(NoAttrs, Parens(e, n - 1))

KeyLit(k) == ExprLit(NoAttrs, Lit("Str", k, <<>>, "attr"))

Attrs ==
    {EmptyAttr, UnparsableAttr}
    \cup {Parens(KeyLit(OTHER_KEY), n) : n \in 0..MaxParen}
    \cup {Parens(ExprLit(NoAttrs, Lit("Int", <<"5">>, <<>>, "attr")), n) : n \in 0..1}
    \cup {Parens(ExprPath(NoAttrs, OTHER_KEY), n) : n \in 0..1}
    \cup {ExprUnary(NoAttrs, "Neg", KeyLit(OTHER_KEY))}

\* An OsString: text, or bytes that are not valid Unicode.
OsString(unicode, text) == [unicode |-> unicode, text |-> text]

OsEnvs ==
    { [k \in Keys |-> None],
      [k \in Keys |-> IF k = NAME THEN Some(OsString(TRUE, <<"9", "9">>)) ELSE None],
      [k \in Keys |-> IF k = NAME THEN Some(OsString(FALSE, <<"9", "9">>))
                      ELSE Some(OsString(TRUE, <<"B">>))],
      [k \in Keys |-> IF k = NAME THEN Some(OsString(TRUE, <<"A">>))
                      ELSE Some(OsString(TRUE, <<"B">>))] }

----------------------------------------------------------------------------
(* ReadEnv *)

\* impl ReadEnv for RealEnv
RealEnv_read_env(os, var_name) ==
    IF os[var_name] = None THEN None
    ELSE IF os[var_name][1].unicode THEN Some(os[var_name][1].text)
    ELSE None

\* impl ReadEnv for TestEnv
TestEnv_read_env(vars_, var_name) == vars_[var_name]

read_env(p, vars_, os, var_name) ==
    IF p = "RealEnv" THEN RealEnv_read_env(os, var_name)
    ELSE TestEnv_read_env(vars_, var_name)

----------------------------------------------------------------------------
(* Key resolution *)

NameResult(ok, name, p) == [ok |-> ok, name |-> name, panic |-> p]

\* Mutant of extract_var_name: the attribute argument is ignored.
extract_var_name_ignoring_attr(a, default) == NameResult(TRUE, default, NoPanic)

RECURSIVE extract_var_name_from_expr(_)
extract_var_name_from_expr(expr) ==
    IF expr.node = "Lit"
    THEN IF expr.lit.kind = "Str"
         THEN NameResult(TRUE, expr.lit.value, NoPanic)
         ELSE NameResult(FALSE, <<>>,
                  Panic("Attribute arguments are not a valid string literal", {}))
    ELSE IF expr.node = "Paren"
    THEN extract_var_name_from_expr(expr.expr)
    ELSE NameResult(FALSE, <<>>,
             Panic("Attribute arguments are not a valid string literal expression", {"expr"}))

extract_var_name(a, default) ==
    IF a = EmptyAttr THEN NameResult(TRUE, default, NoPanic)
    ELSE IF a = UnparsableAttr
    THEN NameResult(FALSE, <<>>, expect("Unable to parse attribute args as expression"))
    ELSE extract_var_name_from_expr(a)

----------------------------------------------------------------------------
(* The literal rewriter *)

LitResult(ok, expr, p, printed) == [ok |-> ok, expr |-> expr, panic |-> p, printed |-> printed]

\* What a failed rewrite leaves in the expr slot of its result.
NoExpr == ExprPath(NoAttrs, <<>>)

\* format!("\"{}\"", value) and its siblings
format_str(value) == <<Quote>> \o value \o <<Quote>>
format_byte_str(value) == <<"b", Quote>> \o value \o <<Quote>>
format_byte(value) == <<"b", Apostrophe>> \o value \o <<Apostrophe>>
format_char(value) == <<Apostrophe>> \o value \o <<Apostrophe>>

\* Mutant of slice_from_1: the whole value goes on to the inner literal.
slice_from_0(value) == value

\* Mutant of slice_from_1: only a leading '-' is taken off.
slice_sign_only(value) == IF Head(value) = "-" THEN Tail(value) ELSE value

\* &value[1..]: byte index 1 must lie inside the text, on a character
\* boundary.
slice_from_1_ok(value) == value # <<>> /\ len_utf8(Head(value)) = 1
slice_from_1(value) == Tail(value)

\* The arms of `match &literal.lit`: the text handed to the parser, and the
\* message of the expect.
lit_source(kind, value) ==
    CASE kind = "Str" -> format_str(value)
      [] kind = "ByteStr" -> format_byte_str(value)
      [] kind = "Byte" -> format_byte(value)
      [] kind = "Char" -> format_char(value)
      [] OTHER -> value

lit_message(kind) ==
    CASE kind = "Str" -> "Failed to parse environment variable contents as literal string"
      [] kind = "ByteStr" -> "Failed to parse environment variable contents as literal byte string"
      [] kind = "Byte" -> "Failed to parse environment variable contents as literal byte"
      [] kind = "Char" -> "Failed to parse environment variable contents as literal character"
      [] kind = "Int" -> "Failed to parse environment variable contents as literal integer"
      [] kind = "Float" -> "Failed to parse environment variable contents as literal float"
      [] OTHER -> "Failed to parse environment variable contents as literal boolean"

ArmResult(ok, lit, p) == [ok |-> ok, lit |-> lit, panic |-> p]

\* Mutant of expect_lit: the new literal is given the original's suffix.
expect_lit_keeping_suffix(r, original) ==
    IF r.ok
    THEN ArmResult(TRUE, [set_span(r.lit, original.span) EXCEPT !.suffix = original.suffix],
             NoPanic)
    ELSE ArmResult(FALSE, original, expect(lit_message(original.kind)))

\* Result::expect on a parsed literal, then set_span(original.span()).
expect_lit(r, original) ==
    IF r.ok THEN ArmResult(TRUE, set_span(r.lit, original.span), NoPanic)
    ELSE ArmResult(FALSE, original, expect(lit_message(original.kind)))

\* One arm of the match on the original literal: the new literal, or the
\* panic of the arm.
new_lit(value, original) ==
    IF original.kind = "Verbatim"
    THEN ArmResult(FALSE, original, Panic("Verbatim literal found", {}))
    ELSE IF original.kind = "Bool"
    THEN IF parse_bool(value)
         THEN ArmResult(TRUE, Lit("Bool", value, <<>>, original.span), NoPanic)
         ELSE ArmResult(FALSE, original, Panic(lit_message("Bool"), {"ParseBoolError"}))
    ELSE expect_lit(parse_str(original.kind, lit_source(original.kind, value)), original)

\* ExprLit { attrs: literal.attrs.clone(), lit: new_lit }.into()
rebuild_lit(original_expr, r) ==
    LitResult(r.ok, IF r.ok THEN ExprLit(original_expr.attrs, r.lit) ELSE NoExpr,
        r.panic, <<original_expr>>)

\* unary.expr = Box::new(inner); unary.into()
rewrap(original_expr, inner) ==
    LitResult(inner.ok,
        IF inner.ok THEN [original_expr EXCEPT !.expr = inner.expr] ELSE NoExpr,
        inner.panic, <<original_expr>> \o inner.printed)

RECURSIVE value_to_literal(_, _)
value_to_literal(value, original_expr) ==
    IF original_expr.node = "Unary"
    THEN IF ~slice_from_1_ok(value)
         THEN LitResult(FALSE, NoExpr,
                  Panic("byte index 1 is out of bounds or not a char boundary", {"value"}),
                  <<original_expr>>)
         ELSE rewrap(original_expr, value_to_literal(slice_from_1(value), original_expr.expr))
    ELSE IF original_expr.node = "Lit"
    THEN rebuild_lit(original_expr, new_lit(value, original_expr.lit))
    ELSE LitResult(FALSE, NoExpr,
             Panic("Original const expression was not a recognized literal expression", {}),
             <<original_expr>>)

----------------------------------------------------------------------------
(* from_env *)

NoOutput == [shape |-> "none"]

Outcome(status, out, p, rd, printed, e) ==
    [status |-> status, output |-> out, panic |-> p, reads |-> rd, stdout |-> printed,
     new_expr |-> e]

\* ToTokens for an expression, read as the expression the tokens denote.
\* A literal that holds a negative number is written as the punctuation
\* '-' and the unsigned literal, both with the literal's span, after the
\* attributes of the literal's node: the tokens of a negation, carrying
\* those attributes, of the unsigned literal.
RECURSIVE to_tokens(_)
to_tokens(e) ==
    IF e.node = "Unary" THEN [e EXCEPT !.expr = to_tokens(e.expr)]
    ELSE IF e.node = "Lit" /\ e.lit.value # <<>> /\ Head(e.lit.value) = "-"
                /\ e.lit.kind \in {"Int", "Float"}
    THEN ExprUnary(e.attrs, "Neg",
             ExprLit(NoAttrs, [e.lit EXCEPT !.value = Tail(e.lit.value)]))
    ELSE e

\* item.expr = Box::new(new_expr); quote_spanned!(span => #item)
emit(it, key, r) ==
    IF ~r.ok
    THEN Outcome("panicked", NoOutput, r.panic, <<key>>, r.printed, NoExpr)
    ELSE Outcome("returned", [it EXCEPT !.expr = to_tokens(r.expr)], NoPanic, <<key>>,
             r.printed, r.expr)

\* Mutant of on_value: an absent value is rewritten like an empty one.
on_value_absent_as_empty(it, key, var_value) ==
    emit(it, key, value_to_literal(IF var_value = None THEN <<>> ELSE var_value[1], it.expr))

\* match read_env.read_env(&var_name) { Some(val) => val, None => return item }
on_value(it, key, var_value) ==
    IF var_value = None THEN Outcome("returned", it, NoPanic, <<key>>, <<>>, NoExpr)
    ELSE emit(it, key, value_to_literal(var_value[1], it.expr))

on_name(it, var_name, p, vars_, os) ==
    IF ~var_name.ok THEN Outcome("panicked", NoOutput, var_name.panic, <<>>, <<>>, NoExpr)
    ELSE on_value(it, var_name.name, read_env(p, vars_, os, var_name.name))

from_env(a, it, p, vars_, os) ==
    IF it.shape \notin {"const", "static"}
    THEN Outcome("panicked", NoOutput, Panic("TODO: error reporting", {}), <<>>, <<>>, NoExpr)
    ELSE on_name(it, extract_var_name(a, it.ident), p, vars_, os)

----------------------------------------------------------------------------
(* Actions *)

NoItem == [shape |-> "none"]

Idle ==
    /\ pc = "idle"
    /\ attr = EmptyAttr
    /\ item = NoItem
    /\ output = NoOutput
    /\ panic = NoPanic
    /\ reads = <<>>
    /\ stdout = <<>>
    /\ new_expr = NoExpr

\* TestEnv::builder(), or the unit value RealEnv over some process environment.
Init ==
    /\ Idle
    /\ \/ provider = "builder" /\ os_env = [k \in Keys |-> None]
       \/ provider = "RealEnv" /\ os_env \in OsEnvs
    /\ env_vars = [k \in Keys |-> None]

\* TestEnvBuilder::set
set(name, value) ==
    /\ provider = "builder"
    /\ env_vars' = [env_vars EXCEPT ![name] = Some(value)]
    /\ UNCHANGED <<provider, os_env, pc, attr, item, output, panic, reads, stdout, new_expr>>

Set == \E name \in Keys, value \in BuilderValues : set(name, value)

\* TestEnvBuilder::build
Build ==
    /\ provider = "builder"
    /\ provider' = "TestEnv"
    /\ UNCHANGED <<env_vars, os_env, pc, attr, item, output, panic, reads, stdout, new_expr>>

\* The caller's view of a finished call.
Finish(r) ==
    /\ pc' = r.status
    /\ output' = r.output
    /\ panic' = r.panic
    /\ reads' = r.reads
    /\ stdout' = r.stdout
    /\ new_expr' = r.new_expr

\* One call of from_env with the provider at hand.
Call(a, it) ==
    /\ pc = "idle"
    /\ provider \in {"TestEnv", "RealEnv"}
    /\ Finish(from_env(a, it, provider, env_vars, os_env))
    /\ attr' = a
    /\ item' = it
    /\ UNCHANGED <<provider, env_vars, os_env>>

FromEnv == \E a \in Attrs, it \in Items : Call(a, it)

Next == Set \/ Build \/ FromEnv

Spec == Init /\ [][Next]_vars

\* The rewriter on every raw value: a built TestEnv that holds one value
\* under the declaration's own name, and a bare attribute.
InitLit ==
    /\ Idle
    /\ provider = "TestEnv"
    /\ os_env = [k \in Keys |-> None]
    /\ \E v \in RawValues : env_vars = [k \in Keys |-> IF k = NAME THEN Some(v) ELSE None]

FromEnvOwnName == \E it \in ConstItems : Call(EmptyAttr, it)

NextLit == FromEnvOwnName

SpecLit == InitLit /\ [][NextLit]_vars

----------------------------------------------------------------------------
(* Vocabulary of the properties, stated on the state alone *)

Called == pc # "idle"
IsDecl == item.shape \in {"const", "static"}

\* The attribute argument is a string literal holding k inside n >= 0
\* layers of parentheses.
IsKeyLiteral(a, k) == \E n \in 0..MaxParen : a = Parens(KeyLit(k), n)

\* The key the specification assigns to the call, when it assigns one.
HasKey(k) ==
    \/ attr = EmptyAttr /\ k = item.ident
    \/ IsKeyLiteral(attr, k)

\* What the provider holds under k.
Held(k) ==
    IF provider = "RealEnv"
    THEN IF os_env[k] # None /\ os_env[k][1].unicode THEN Some(os_env[k][1].text) ELSE None
    ELSE env_vars[k]

\* The call looked the declaration's own name up in a TestEnv and found a
\* value: the raw override value.
Overridden == Called /\ IsDecl /\ attr = EmptyAttr /\ provider = "TestEnv" /\ env_vars[NAME] # None
RawValue == env_vars[NAME][1]

\* The literal at the bottom of a chain of unary wrappers (the expression
\* itself when it is no such chain).
RECURSIVE Innermost(_)
Innermost(e) == IF e.node = "Unary" THEN Innermost(e.expr) ELSE e

\* Number of unary wrappers around the literal: one leading character of
\* the raw value is dropped for each.
RECURSIVE Wrappers(_)
Wrappers(e) == IF e.node = "Unary" THEN 1 + Wrappers(e.expr) ELSE 0

LiteralKinds == {"Str", "ByteStr", "Byte", "Char", "Int", "Float", "Bool"}

IsDigits(d) == d # <<>> /\ \A i \in 1..Len(d) : d[i] \in Digits

\* Text without its leading and trailing blanks.
RECURSIVE TrimLeft(_)
TrimLeft(v) == IF v # <<>> /\ Head(v) = " " THEN TrimLeft(Tail(v)) ELSE v
RECURSIVE TrimRight(_)
TrimRight(v) == IF v # <<>> /\ v[Len(v)] = " " THEN TrimRight(Take(v, Len(v) - 1)) ELSE v
Trim(v) == TrimLeft(TrimRight(v))

\* The part of a numeric text from its first letter on: its suffix.
RECURSIVE FromFirstLetter(_)
FromFirstLetter(v) ==
    IF v = <<>> THEN <<>>
    ELSE IF Head(v) \in Letters THEN v ELSE FromFirstLetter(Tail(v))
RawSuffix(v) == FromFirstLetter(Trim(v))

\* Digits, then letters and digits: an unsigned integer literal with an
\* optional suffix.
IsUnsignedIntText(v) ==
    \E n \in 1..Len(v) :
        /\ IsDigits(Take(v, n))
        /\ \A i \in (n + 1)..Len(v) : v[i] \in Letters \cup Digits
        /\ n < Len(v) => v[n + 1] \in Letters

\* An integer literal as syn::LitInt reads one: blanks around it, an
\* optional '-' in front.
IsIntegerText(v) ==
    LET t == Trim(v)
    IN \/ IsUnsignedIntText(t)
       \/ t # <<>> /\ Head(t) = "-" /\ IsUnsignedIntText(TrimLeft(Tail(t)))

----------------------------------------------------------------------------
(* C1 *)

\* C1: when the key the attribute resolves to is absent from the provider,
\* from_env returns the input declaration itself, unchanged, and does not
\* abort, whatever the initializer is.
C1_AbsentKeyReturnsInput ==
    \A k \in Keys :
        (Called /\ IsDecl /\ HasKey(k) /\ Held(k) = None)
            => (pc = "returned" /\ output = item /\ panic = NoPanic)

\* A static with a non-literal initializer and a parenthesized explicit key
\* that the provider does not hold, returned as it came, while the
\* declaration's own name is held.
C1_Witness ==
    /\ pc = "returned"
    /\ item.shape = "static"
    /\ item.expr.node = "Path"
    /\ attr = Parens(KeyLit(OTHER_KEY), 1)
    /\ Held(OTHER_KEY) = None
    /\ Held(NAME) # None
    /\ output = item

(* C2 *)

\* C2: whenever a rewrite returns, the literal value_to_literal built, and
\* the literal of the initializer that is emitted, have the kind of the
\* original literal, one of the seven literal kinds.
C2_KindPreserved ==
    (Overridden /\ pc = "returned")
        => /\ Innermost(new_expr).node = "Lit"
           /\ Wrappers(new_expr) = Wrappers(item.expr)
           /\ Innermost(new_expr).lit.kind = Innermost(item.expr).lit.kind
           /\ Innermost(output.expr).node = "Lit"
           /\ Innermost(output.expr).lit.kind = Innermost(item.expr).lit.kind
           /\ Innermost(output.expr).lit.kind \in LiteralKinds

\* An integer literal rewritten from "42": another payload, the same kind.
C2_Witness ==
    /\ Overridden /\ pc = "returned"
    /\ RawValue = <<"4", "2">>
    /\ item.expr = ExprLit(NoAttrs, Lit("Int", <<"5">>, <<>>, LitSpan))
    /\ output.expr.lit.kind = "Int"
    /\ output.expr.lit.value = <<"4", "2">>

(* C3 *)

IsNumeric(e) == e.node = "Lit" /\ e.lit.kind \in {"Int", "Float"}

\* C3 as claimed: a rewritten Integer or Float literal carries the suffix of
\* the original literal.
C3_OriginalSuffixKept ==
    (/\ Overridden /\ pc = "returned" /\ IsNumeric(Innermost(item.expr))
     /\ Innermost(item.expr).lit.suffix # <<>>)
        => Innermost(output.expr).lit.suffix = Innermost(item.expr).lit.suffix

\* C3 amended: a rewritten Integer or Float literal carries the suffix
\* written in the raw override value (in what is left of it once the
\* characters dropped for unary wrappers are gone), none when the value
\* writes none; the suffix of the original literal plays no part.
C3_SuffixFromRawValue ==
    (Overridden /\ pc = "returned" /\ IsNumeric(Innermost(item.expr)))
        => Innermost(output.expr).lit.suffix =
               RawSuffix(Drop(RawValue, Wrappers(item.expr)))

\* 5u8 rewritten from "42": the result is 42 without a suffix.
C3_Witness ==
    /\ Overridden /\ pc = "returned"
    /\ item.expr = ExprLit(NoAttrs, Lit("Int", <<"5">>, <<"u", "8">>, LitSpan))
    /\ RawValue = <<"4", "2">>
    /\ output.expr.lit.suffix = <<>>

(* C4 *)

\* Decimal digits with no leading zero.
IsDecimal(d) == IsDigits(d) /\ (Len(d) > 1 => d[1] # "0")

\* C4: an initializer -L, L an integer literal, overridden by "-N" with N
\* decimal digits, becomes the same negation around the integer literal N:
\* the wrapper and the literal's span and attributes stay, the digits are N.
C4_SignRoundTrip ==
    (/\ Overridden
     /\ item.expr.node = "Unary" /\ item.expr.op = "Neg"
     /\ item.expr.expr.node = "Lit" /\ item.expr.expr.lit.kind = "Int"
     /\ RawValue # <<>> /\ Head(RawValue) = "-" /\ IsDecimal(Tail(RawValue)))
        => /\ pc = "returned"
           /\ output.expr =
                ExprUnary(item.expr.attrs, "Neg",
                    ExprLit(item.expr.expr.attrs,
                        Lit("Int", Tail(RawValue), <<>>, item.expr.expr.lit.span)))

\* -5 overridden by "-42" is -42.
C4_Witness ==
    /\ Overridden /\ pc = "returned"
    /\ item.expr = ExprUnary(NoAttrs, "Neg", ExprLit(NoAttrs, Lit("Int", <<"5">>, <<>>, LitSpan)))
    /\ RawValue = <<"-", "4", "2">>
    /\ output.expr = ExprUnary(NoAttrs, "Neg",
                        ExprLit(NoAttrs, Lit("Int", <<"4", "2">>, <<>>, LitSpan)))

(* C5 *)

\* C5: the key looked up is the declaration's identifier when the attribute
\* argument is empty and the string literal's value when the argument is a
\* string literal in any number of parentheses; every other argument aborts
\* before any lookup.  With an explicit key, the value under that key is
\* the one the rewrite uses, not the value under the declaration's name.
C5_KeyResolution ==
    (Called /\ IsDecl)
        => /\ attr = EmptyAttr => reads = <<item.ident>>
           /\ \A k \in Keys : IsKeyLiteral(attr, k) => reads = <<k>>
           /\ (attr # EmptyAttr /\ \A k \in Keys : ~IsKeyLiteral(attr, k))
                => (pc = "panicked" /\ reads = <<>> /\ output = NoOutput)
           /\ (/\ IsKeyLiteral(attr, OTHER_KEY)
               /\ Held(OTHER_KEY) # None
               /\ item.expr.node = "Lit" /\ item.expr.lit.kind = "Str")
                => (pc = "returned" /\ output.expr.lit.value = Held(OTHER_KEY)[1])

\* NAME holds "A", OTHER_KEY holds "B", the attribute is (("OTHER_KEY")):
\* the string literal becomes "B".
C5_Witness ==
    /\ pc = "returned"
    /\ attr = Parens(KeyLit(OTHER_KEY), 2)
    /\ Held(NAME) = Some(<<"A">>)
    /\ Held(OTHER_KEY) = Some(<<"B">>)
    /\ item.expr.node = "Lit" /\ item.expr.lit.kind = "Str"
    /\ output.expr.lit.value = <<"B">>
    /\ reads = <<OTHER_KEY>>

(* C6 *)

\* One integer literal token: digits with an optional suffix, nothing in
\* front of it and nothing after it.
IsIntegerToken(v) == IsUnsignedIntText(v)

IsIntOriginal == item.expr.node = "Lit" /\ item.expr.lit.kind = "Int"

\* C6 as claimed: an abort emits no declaration; a Boolean original is
\* rewritten for exactly the raw values "true" and "false" and aborts on
\* every other; an Integer original aborts on every raw value that is not
\* an integer literal token.
C6_AbortsOffIntegerToken ==
    Overridden
        => /\ pc = "panicked" => output = NoOutput
           /\ (item.expr.node = "Lit" /\ item.expr.lit.kind = "Bool")
                => (pc = "returned" <=> RawValue \in {TrueText, FalseText})
           /\ (IsIntOriginal /\ ~IsIntegerToken(RawValue)) => pc = "panicked"

\* C6 amended: an abort emits no declaration; a Boolean original is
\* rewritten for exactly the raw values "true" and "false" and aborts on
\* every other; an Integer original aborts on every raw value that, with
\* the blanks around it removed, is neither an integer literal token nor
\* a '-', blanks or none, and an integer literal token. A raw value that
\* is an integer literal token is rewritten.
C6_MismatchAborts ==
    Overridden
        => /\ pc = "panicked" => output = NoOutput
           /\ (item.expr.node = "Lit" /\ item.expr.lit.kind = "Bool")
                => (pc = "returned" <=> RawValue \in {TrueText, FalseText})
           /\ (IsIntOriginal /\ ~IsIntegerText(RawValue)) => pc = "panicked"
           /\ (IsIntOriginal /\ IsIntegerText(RawValue)) => pc = "returned"

\* An Integer original overridden by "abc" aborts and emits nothing.
C6_Witness ==
    /\ Overridden /\ pc = "panicked"
    /\ IsIntOriginal
    /\ RawValue = <<"a", "b", "c">>
    /\ output = NoOutput

(* C7 *)

\* The rewritten expression keeps, level by level, the wrappers, their
\* operators and attributes, and at the bottom the attributes and the span
\* of the original literal.
RECURSIVE SameFrame(_, _)
SameFrame(orig, new) ==
    IF orig.node = "Unary"
    THEN /\ new.node = "Unary"
         /\ new.op = orig.op
         /\ new.attrs = orig.attrs
         /\ SameFrame(orig.expr, new.expr)
    ELSE /\ orig.node = "Lit"
         /\ new.node = "Lit"
         /\ new.attrs = orig.attrs
         /\ new.lit.span = orig.lit.span

\* The attributes written in an expression's tokens, outermost first.
RECURSIVE AttrsInOrder(_)
AttrsInOrder(e) ==
    IF e.node = "Unary" THEN e.attrs \o AttrsInOrder(e.expr) ELSE e.attrs

\* C7: the literal value_to_literal returns has the span of the original
\* literal, never the span of the parsed replacement text, and the
\* attributes of every expression node are carried over; the literal of the
\* emitted initializer has the original literal's span as well, and the
\* emitted initializer writes the original's attributes in their order.
C7_SpanAndAttrsKept ==
    (Overridden /\ pc = "returned")
        => /\ SameFrame(item.expr, new_expr)
           /\ Innermost(new_expr).lit.span # CallSite
           /\ Innermost(output.expr).lit.span = Innermost(item.expr).lit.span
           /\ AttrsInOrder(output.expr) = AttrsInOrder(item.expr)

\* An attributed negation of an attributed literal, rewritten to another
\* payload with span and attributes in place.
C7_Witness ==
    /\ Overridden /\ pc = "returned"
    /\ item.expr = ExprUnary(OneAttr, "Neg", ExprLit(OneAttr, Lit("Int", <<"5">>, <<>>, LitSpan)))
    /\ RawValue = <<"-", "4">>
    /\ output.expr.expr.lit.value = <<"4">>
    /\ output.expr.expr.lit.span = LitSpan
    /\ output.expr.expr.attrs = OneAttr

(* C8 *)

KindMessages == {lit_message(k) : k \in LiteralKinds}

\* C8 as claimed: every abort of the rewriter has a message that identifies
\* the declaration name, the expected literal kind and the raw value.
C8_MessagesIdentifyAll ==
    (Overridden /\ pc = "panicked")
        => /\ "ident" \in panic.shows
           /\ "value" \in panic.shows
           /\ panic.msg \in KindMessages

(* C9 *)

\* C9 as claimed: a call looks at most one key up and writes nothing to
\* standard output on any path.
C9_NoOutputBesidesLookup == Len(reads) <= 1 /\ stdout = <<>>

(* C10 *)

IsWrappedInt(e) == e.node = "Unary" /\ e.expr.node = "Lit" /\ e.expr.lit.kind = "Int"

\* C10 as claimed: under any unary operator the inner literal is rewritten
\* from the raw value without its first character, whatever that character
\* is, and an empty raw value aborts.
C10_FirstCharacterDropped ==
    (Overridden /\ IsWrappedInt(item.expr))
        => /\ RawValue = <<>> => pc = "panicked"
           /\ (RawValue # <<>> /\ IsDecimal(Tail(RawValue)))
                => /\ pc = "returned"
                   /\ output.expr.op = item.expr.op
                   /\ output.expr.expr.lit.value = Tail(RawValue)

\* C10 amended: the inner literal is rewritten from the raw value without
\* its first byte when the first character is one byte long, whatever that
\* character is; an empty raw value aborts, and so does one whose first
\* character takes more than one byte.
C10_FirstByteDropped ==
    (Overridden /\ IsWrappedInt(item.expr))
        => /\ (RawValue = <<>> \/ (RawValue # <<>> /\ Head(RawValue) = EAcute))
                => pc = "panicked"
           /\ (RawValue # <<>> /\ Head(RawValue) # EAcute /\ IsDecimal(Tail(RawValue)))
                => /\ pc = "returned"
                   /\ output.expr.op = item.expr.op
                   /\ output.expr.expr.lit.value = Tail(RawValue)

\* !5 overridden by the unsigned "42" is !2.
C10_Witness ==
    /\ Overridden /\ pc = "returned"
    /\ item.expr = ExprUnary(NoAttrs, "Not", ExprLit(NoAttrs, Lit("Int", <<"5">>, <<>>, LitSpan)))
    /\ RawValue = <<"4", "2">>
    /\ output.expr.expr.lit.value = <<"2">>

====
